---- MODULE Spec2Model ----
(***************************************************************************)
(* Model of Scrape.py: a Streamlit script that fetches one web page,       *)
(* reduces it to text (scrape_webpage), classifies every non-blank line    *)
(* as integer, float or string (extract_data), tabulates the rows          *)
(* (preprocess_data) and shows the table, its per-kind views and the       *)
(* merged view (main).                                                     *)
(*                                                                         *)
(* A Python str is a sequence of one-character strings.  "u3" stands for   *)
(* one non-ASCII decimal digit (U+0663, ARABIC-INDIC DIGIT THREE), which   *)
(* \d, int() and float() all accept in Python 3.  The value None is the    *)
(* one-element sequence <<"None">>, which no text can be.                  *)
(***************************************************************************)
EXTENDS Integers, Sequences, FiniteSets

VARIABLES pc, url, page, requests, text_content, extracted_data, df,
          int_df, float_df, string_df, merged_df, shown, errors, calls

vars == <<pc, url, page, requests, text_content, extracted_data, df,
          int_df, float_df, string_df, merged_df, shown, errors, calls>>

-----------------------------------------------------------------------------
(* Bounds *)

MaxTextLen == 5

MaxLayoutLen == 7

MaxPageLen == 5

MaxLivePageLen == 3

-----------------------------------------------------------------------------
(* Characters *)

AsciiDigits == {"0", "1"}

\* \d of a str pattern: every Unicode decimal digit
Digits == AsciiDigits \cup {"u3"}

\* the characters str.strip() removes
Whitespace == {" ", "\n"}

None == <<"None">>

Alphabet == {"0", "1", "u3", ".", "-", ",", "e", "\n"}

LayoutAlphabet == {"e", "1", " ", "\n"}

BoundedSeq(S, n) == UNION {[1..k -> S] : k \in 0..n}

-----------------------------------------------------------------------------
(* String helpers, as the Python built-ins compute them *)

RECURSIVE IndexOf(_, _, _)
\* s.find(c, i): the first position >= i that holds c, 0 if none
IndexOf(s, c, i) ==
    IF i > Len(s) THEN 0
    ELSE IF s[i] = c THEN i
    ELSE IndexOf(s, c, i + 1)

RECURSIVE Split(_, _)
\* s.split(sep): one piece more than there are separators, empty pieces kept
Split(s, sep) ==
    LET k == IndexOf(s, sep, 1)
    IN IF k = 0 THEN <<s>>
       ELSE <<SubSeq(s, 1, k - 1)>> \o Split(SubSeq(s, k + 1, Len(s)), sep)

RECURSIVE LStrip(_)
LStrip(s) ==
    IF s # <<>> /\ Head(s) \in Whitespace THEN LStrip(Tail(s)) ELSE s

RECURSIVE RStrip(_)
RStrip(s) ==
    IF s # <<>> /\ s[Len(s)] \in Whitespace
    THEN RStrip(SubSeq(s, 1, Len(s) - 1))
    ELSE s

\* s.strip()
Strip(s) == RStrip(LStrip(s))

AllDigits(s) == \A i \in 1..Len(s) : s[i] \in Digits

\* $ matches at the end of the string and also before a final newline
BeforeDollar(s) ==
    IF s # <<>> /\ s[Len(s)] = "\n"
    THEN {s, SubSeq(s, 1, Len(s) - 1)}
    ELSE {s}

\* IsIntegerPattern with [0-9] in place of \d
IsIntegerPatternAscii(line) ==
    \E s \in BeforeDollar(line) :
        s # <<>> /\ \A i \in 1..Len(s) : s[i] \in AsciiDigits

\* re.match(r'^\d+$', line)
IsIntegerPattern(line) ==
    \E s \in BeforeDollar(line) : s # <<>> /\ AllDigits(s)

\* IsFloatPattern with \d* in place of \d+
IsFloatPatternStar(line) ==
    \E s \in BeforeDollar(line) :
        \E k \in 1..Len(s) :
            /\ s[k] = "."
            /\ AllDigits(SubSeq(s, 1, k - 1))
            /\ AllDigits(SubSeq(s, k + 1, Len(s)))

\* re.match(r'^\d+\.\d+$', line)
IsFloatPattern(line) ==
    \E s \in BeforeDollar(line) :
        \E k \in 2..(Len(s) - 1) :
            /\ s[k] = "."
            /\ AllDigits(SubSeq(s, 1, k - 1))
            /\ AllDigits(SubSeq(s, k + 1, Len(s)))

DigitVal(c) == CASE c = "0" -> 0 [] c = "1" -> 1 [] c = "u3" -> 3

RECURSIVE intOctal(_)
\* int with base 8
intOctal(line) ==
    IF line = <<>> THEN 0
    ELSE 8 * intOctal(SubSeq(line, 1, Len(line) - 1)) + DigitVal(line[Len(line)])

RECURSIVE int(_)
\* int(line) of a digit string: base 10, unbounded
int(line) ==
    IF line = <<>> THEN 0
    ELSE 10 * int(SubSeq(line, 1, Len(line) - 1)) + DigitVal(line[Len(line)])

RECURSIVE Normal(_, _)
\* num / 10^scale in lowest decimal terms
Normal(num, scale) ==
    IF scale > 0 /\ num % 10 = 0 THEN Normal(num \div 10, scale - 1)
    ELSE <<num, scale>>

\* float(line) of digits "." digits.  The number is kept exactly, as
\* <<num, scale>> for num / 10^scale in lowest terms: two such lines give the
\* same pair exactly when they denote the same number.
float(line) ==
    LET k == IndexOf(line, ".", 1)
        frac == SubSeq(line, k + 1, Len(line))
    IN Normal(int(SubSeq(line, 1, k - 1) \o frac), Len(frac))

-----------------------------------------------------------------------------
(* extract_data *)

\* the if / elif / else of one stripped, non-empty line
ClassifiedLine(line) ==
    IF IsIntegerPattern(line) THEN [type |-> "integer", value |-> int(line)]
    ELSE IF IsFloatPattern(line) THEN [type |-> "float", value |-> float(line)]
    ELSE [type |-> "string", value |-> line]

RECURSIVE ExtractLinesUnstripped(_)
\* ExtractLines with the emptiness test on the line before strip()
ExtractLinesUnstripped(lines) ==
    IF lines = <<>> THEN <<>>
    ELSE IF Head(lines) = <<>> THEN ExtractLinesUnstripped(Tail(lines))
    ELSE <<ClassifiedLine(Strip(Head(lines)))>>
             \o ExtractLinesUnstripped(Tail(lines))

RECURSIVE ExtractLines(_)
\* the for loop over lines
ExtractLines(lines) ==
    IF lines = <<>> THEN <<>>
    ELSE LET line == Strip(Head(lines))
         IN IF line = <<>> THEN ExtractLines(Tail(lines))
            ELSE <<ClassifiedLine(line)>> \o ExtractLines(Tail(lines))

extract_data(text) == ExtractLines(Split(text, "\n"))

-----------------------------------------------------------------------------
(* scrape_webpage *)

\* A response body is a sequence of symbols: "|" is a tag boundary between
\* two text nodes, and a node that starts with "S" is the content of a
\* script or style element.
PageAlphabet == {"1", ".", "e", " ", "\n", "|", "S"}

Pages == BoundedSeq(PageAlphabet, MaxPageLen)

\* what requests.get / raise_for_status raise: all are RequestException
RequestExceptions == {"Timeout", "ConnectionError", "HTTPError"}

\* BeautifulSoup(response.content, 'html.parser'): the text nodes in order
Soup(content) == Split(content, "|")

IsScriptOrStyle(node) == node # <<>> /\ Head(node) = "S"

\* the find_all(['script', 'style']) / decompose() loop
Decomposed(soup) == SelectSeq(soup, LAMBDA node : ~IsScriptOrStyle(node))

RECURSIVE Join(_, _)
\* separator.join(strings)
Join(strings, separator) ==
    IF strings = <<>> THEN <<>>
    ELSE IF Len(strings) = 1 THEN Head(strings)
    ELSE Head(strings) \o <<separator>> \o Join(Tail(strings), separator)

\* get_text with strip=False: every node as it is
get_textUnstripped(soup, separator) == Join(soup, separator)

\* soup.get_text(separator, strip=True): every node stripped, the nodes that
\* are empty once stripped left out, the rest joined by the separator
get_text(soup, separator) ==
    LET stripped == [i \in 1..Len(soup) |-> Strip(soup[i])]
    IN Join(SelectSeq(stripped, LAMBDA t : t # <<>>), separator)

\* an except branch that reports nothing
FetchErrorSilent(e) == <<>>

\* st.error in "except requests.exceptions.RequestException"
FetchError(e) == <<[msg |-> "Error fetching URL", detail |-> e]>>

\* st.error in "except Exception"
UnexpectedError == <<[msg |-> "An unexpected error occurred", detail |-> "Exception"]>>

-----------------------------------------------------------------------------
(* preprocess_data and the views of main *)

Kinds == <<"integer", "float", "string">>

\* pd.DataFrame(data): one row per dict, indexed from 0; of an empty list, a
\* frame with no rows and no columns
preprocess_data(data) ==
    [i \in 1..Len(data) |->
        [index |-> i - 1, type |-> data[i].type, value |-> data[i].value]]

Columns(frame) == IF frame = <<>> THEN {} ELSE {"type", "value"}

\* df[df['type'] == kind]
by_kind(frame, kind) == SelectSeq(frame, LAMBDA row : row.type = kind)

RECURSIVE concat(_)
\* pd.concat(frames)
concat(frames) ==
    IF frames = <<>> THEN <<>> ELSE Head(frames) \o concat(Tail(frames))

\* a merge that leaves the strings out
MergedNoStrings(ints, floats, strings) == concat(<<ints, floats>>)

\* pd.concat([int_df, float_df, string_df])
Merged(ints, floats, strings) == concat(<<ints, floats, strings>>)

-----------------------------------------------------------------------------
(* main: one run of the script per user action *)

Urls == {"", "http://a"}

\* a test that lets every value through
TruthyAlways(text) == TRUE

\* "if text_content:"
Truthy(text) == text # None /\ text # <<>>

\* a test that rejects nothing
UrlMissingNever(u) == FALSE

\* "if not url:"
UrlMissing(u) == u = ""

Init ==
    /\ pc = "idle"
    /\ url = ""
    /\ page = None
    /\ requests = 0
    /\ text_content = <<>>
    /\ extracted_data = <<>>
    /\ df = <<>>
    /\ int_df = <<>>
    /\ float_df = <<>>
    /\ string_df = <<>>
    /\ merged_df = <<>>
    /\ shown = <<>>
    /\ errors = <<>>
    /\ calls = <<>>

\* st.text_input: the user types a URL
EnterUrl(u) ==
    /\ pc = "idle"
    /\ u # url
    /\ url' = u
    /\ UNCHANGED <<pc, page, requests, text_content, extracted_data, df, int_df,
                   float_df, string_df, merged_df, shown, errors, calls>>

\* the button is pressed with no URL
ClickWithoutUrl ==
    /\ pc = "idle"
    /\ UrlMissing(url)
    /\ errors' = Append(errors, [msg |-> "Please enter a URL.", detail |-> ""])
    /\ pc' = "reported"
    /\ UNCHANGED <<url, page, requests, text_content, extracted_data, df, int_df,
                   float_df, string_df, merged_df, shown, calls>>

\* the button is pressed with a URL: the spinner, then scrape_webpage(url)
ClickWithUrl ==
    /\ pc = "idle"
    /\ ~UrlMissing(url)
    /\ shown' = Append(shown, "spinner")
    /\ calls' = Append(calls, "scrape_webpage")
    /\ pc' = "fetching"
    /\ UNCHANGED <<url, page, requests, text_content, extracted_data, df, int_df,
                   float_df, string_df, merged_df, errors>>

\* requests.get and raise_for_status succeed, with a body among bodies
Get(bodies) ==
    /\ pc = "fetching"
    /\ requests' = requests + 1
    /\ \E content \in bodies : page' = content
    /\ pc' = "parsing"
    /\ UNCHANGED <<url, text_content, extracted_data, df, int_df, float_df,
                   string_df, merged_df, shown, errors, calls>>

GetSucceeds == Get(Pages)

\* requests.get or raise_for_status raises: reported, None returned
GetRaises(e) ==
    /\ pc = "fetching"
    /\ requests' = requests + 1
    /\ errors' = errors \o FetchError(e)
    /\ text_content' = None
    /\ pc' = "returned"
    /\ UNCHANGED <<url, page, extracted_data, df, int_df, float_df, string_df,
                   merged_df, shown, calls>>

\* the markup is parsed, scripts and styles dropped, the text returned
Parse ==
    /\ pc = "parsing"
    /\ text_content' = get_text(Decomposed(Soup(page)), "\n")
    /\ pc' = "returned"
    /\ UNCHANGED <<url, page, requests, extracted_data, df, int_df, float_df,
                   string_df, merged_df, shown, errors, calls>>

\* anything else raised while parsing: reported, None returned
ParseRaises ==
    /\ pc = "parsing"
    /\ errors' = errors \o UnexpectedError
    /\ text_content' = None
    /\ pc' = "returned"
    /\ UNCHANGED <<url, page, requests, extracted_data, df, int_df, float_df,
                   string_df, merged_df, shown, calls>>

\* "if text_content:" holds
TextReturned ==
    /\ pc = "returned"
    /\ Truthy(text_content)
    /\ pc' = "classifying"
    /\ UNCHANGED <<url, page, requests, text_content, extracted_data, df, int_df,
                   float_df, string_df, merged_df, shown, errors, calls>>

\* the else branch
FailedToScrape ==
    /\ pc = "returned"
    /\ ~Truthy(text_content)
    /\ errors' = Append(errors, [msg |-> "Failed to scrape data from the webpage.",
                                 detail |-> ""])
    /\ pc' = "reported"
    /\ UNCHANGED <<url, page, requests, text_content, extracted_data, df, int_df,
                   float_df, string_df, merged_df, shown, calls>>

Classify ==
    /\ pc = "classifying"
    /\ calls' = Append(calls, "extract_data")
    /\ extracted_data' = extract_data(text_content)
    /\ pc' = "tabulating"
    /\ UNCHANGED <<url, page, requests, text_content, df, int_df, float_df,
                   string_df, merged_df, shown, errors>>

Tabulate ==
    /\ pc = "tabulating"
    /\ calls' = Append(calls, "preprocess_data")
    /\ df' = preprocess_data(extracted_data)
    /\ pc' = "displaying"
    /\ UNCHANGED <<url, page, requests, text_content, extracted_data, int_df,
                   float_df, string_df, merged_df, shown, errors>>

\* the tabs and the raw text.  df['type'] of a frame with no columns raises
\* KeyError, which nothing catches: the run stops after the first tab.
Display(checkbox) ==
    /\ pc = "displaying"
    /\ IF "type" \notin Columns(df)
       THEN /\ shown' = shown \o <<"Extracted Data:", "All Data">>
            /\ pc' = "fault"
            /\ UNCHANGED <<int_df, float_df, string_df, merged_df>>
       ELSE /\ int_df' = by_kind(df, "integer")
            /\ float_df' = by_kind(df, "float")
            /\ string_df' = by_kind(df, "string")
            /\ merged_df' = IF checkbox
                            THEN Merged(by_kind(df, "integer"), by_kind(df, "float"),
                                        by_kind(df, "string"))
                            ELSE merged_df
            /\ shown' = shown \o <<"Extracted Data:", "All Data", "Integers",
                                   "Floats", "Strings">>
                              \o (IF checkbox THEN <<"Merged">> ELSE <<>>)
                              \o <<"Raw Text">>
            /\ pc' = "done"
    /\ UNCHANGED <<url, page, requests, text_content, extracted_data, df, errors,
                   calls>>

\* the next run of the script starts from nothing but the text input
Rerun ==
    /\ pc \in {"done", "reported", "fault"}
    /\ pc' = "idle"
    /\ page' = None
    /\ requests' = 0
    /\ text_content' = <<>>
    /\ extracted_data' = <<>>
    /\ df' = <<>>
    /\ int_df' = <<>>
    /\ float_df' = <<>>
    /\ string_df' = <<>>
    /\ merged_df' = <<>>
    /\ shown' = <<>>
    /\ errors' = <<>>
    /\ calls' = <<>>
    /\ UNCHANGED url

Next ==
    \/ \E u \in Urls : EnterUrl(u)
    \/ ClickWithoutUrl
    \/ ClickWithUrl
    \/ GetSucceeds
    \/ \E e \in RequestExceptions : GetRaises(e)
    \/ Parse
    \/ ParseRaises
    \/ TextReturned
    \/ FailedToScrape
    \/ Classify
    \/ Tabulate
    \/ \E checkbox \in BOOLEAN : Display(checkbox)
    \/ Rerun

Spec == Init /\ [][Next]_vars

-----------------------------------------------------------------------------
(* The run under fairness, over the shorter response bodies *)

LivePages == BoundedSeq(PageAlphabet, MaxLivePageLen)

GetSucceedsLive == Get(LivePages)

\* the steps the script takes by itself once the button is pressed
RunStep ==
    \/ GetSucceedsLive
    \/ \E e \in RequestExceptions : GetRaises(e)
    \/ Parse
    \/ ParseRaises
    \/ TextReturned
    \/ FailedToScrape
    \/ Classify
    \/ Tabulate
    \/ \E checkbox \in BOOLEAN : Display(checkbox)

UserStep ==
    \/ \E u \in Urls : EnterUrl(u)
    \/ ClickWithoutUrl
    \/ ClickWithUrl
    \/ Rerun

NextLive == UserStep \/ RunStep

\* The script runs to its end once started: it is one thread, and the one
\* call that blocks, requests.get, returns or raises within its timeout.
LiveSpec == Init /\ [][NextLive]_vars /\ WF_vars(RunStep)

-----------------------------------------------------------------------------
(* extract_data as a function of any text *)

Texts == BoundedSeq(Alphabet, MaxTextLen) \cup BoundedSeq(LayoutAlphabet, MaxLayoutLen)

InitExtract ==
    /\ pc = "extract_data"
    /\ text_content \in Texts
    /\ url = ""
    /\ page = None
    /\ requests = 0
    /\ extracted_data = <<>>
    /\ df = <<>>
    /\ int_df = <<>>
    /\ float_df = <<>>
    /\ string_df = <<>>
    /\ merged_df = <<>>
    /\ shown = <<>>
    /\ errors = <<>>
    /\ calls = <<>>

ExtractData ==
    /\ pc = "extract_data"
    /\ extracted_data' = extract_data(text_content)
    /\ calls' = Append(calls, "extract_data")
    /\ pc' = "extracted"
    /\ UNCHANGED <<url, page, requests, text_content, df, int_df, float_df,
                   string_df, merged_df, shown, errors>>

NextExtract == ExtractData

ExtractSpec == InitExtract /\ [][NextExtract]_vars

-----------------------------------------------------------------------------
(* Properties of extract_data *)

\* the stripped lines of a text that are not empty, in order
TrimmedLines(text) ==
    LET lines == Split(text, "\n")
        stripped == [i \in 1..Len(lines) |-> Strip(lines[i])]
    IN SelectSeq(stripped, LAMBDA l : l # <<>>)

Count(s, c) == Cardinality({i \in 1..Len(s) : s[i] = c})

\* the kind of a line by the rule "digits / digits dot digits / anything
\* else", for a given set of digit characters
KindBy(D, line) ==
    IF \A i \in 1..Len(line) : line[i] \in D THEN "integer"
    ELSE IF /\ Count(line, ".") = 1
            /\ line[1] # "."
            /\ line[Len(line)] # "."
            /\ \A i \in 1..Len(line) : line[i] \in D \cup {"."}
         THEN "float"
    ELSE "string"

RowsFollow(D) ==
    LET ls == TrimmedLines(text_content)
    IN /\ Len(extracted_data) = Len(ls)
       /\ \A i \in 1..Len(ls) : extracted_data[i].type = KindBy(D, ls[i])

\* C1, as stated: every non-empty trimmed line gets exactly one kind:
\* integer when it is one or more of the digits 0-9, else float when it is
\* digits 0-9, one dot, digits 0-9, else string.
C1_KindByAsciiDigits == pc = "extracted" => RowsFollow(AsciiDigits)

\* C1, amended: every non-empty trimmed line gets exactly one kind, decided
\* by the trimmed line alone: integer when it is one or more decimal digits
\* (any Unicode decimal digit, as \d matches), else float when it is decimal
\* digits, one dot, decimal digits, else string.
C1_KindByDecimalDigits == pc = "extracted" => RowsFollow(Digits)

C1_Witness ==
    /\ pc = "extracted"
    /\ text_content = <<"u3", "\n", "1", ".", "0">>
    /\ Len(extracted_data) = 2
    /\ extracted_data[1].type = "integer"
    /\ extracted_data[2].type = "float"

RECURSIVE Pow10(_)
Pow10(n) == IF n = 0 THEN 1 ELSE 10 * Pow10(n - 1)

RECURSIVE PositionalSum(_, _)
\* the base-10 number a string of the digits 0-9 writes, by place value
PositionalSum(s, i) ==
    IF i > Len(s) THEN 0
    ELSE (IF s[i] = "1" THEN Pow10(Len(s) - i) ELSE 0) + PositionalSum(s, i + 1)

PlainInt(s) == s # <<>> /\ \A i \in 1..Len(s) : s[i] \in AsciiDigits

PlainFloat(s) ==
    \E k \in 2..(Len(s) - 1) :
        /\ s[k] = "."
        /\ PlainInt(SubSeq(s, 1, k - 1))
        /\ PlainInt(SubSeq(s, k + 1, Len(s)))

PlainNumber(s) == PlainInt(s) \/ PlainFloat(s)

IsNegativeNumber(s) == Len(s) > 1 /\ s[1] = "-" /\ PlainNumber(Tail(s))

HasLeadingZeros(s) ==
    PlainNumber(s) /\ Len(s) > 1 /\ s[1] = "0" /\ s[2] \in AsciiDigits

IsScientific(s) ==
    \E k \in 2..(Len(s) - 1) :
        /\ s[k] = "e"
        /\ PlainNumber(SubSeq(s, 1, k - 1))
        /\ \/ PlainInt(SubSeq(s, k + 1, Len(s)))
           \/ s[k + 1] = "-" /\ PlainInt(SubSeq(s, k + 2, Len(s)))

\* groups of digits with a comma between each two, "1,000" among them
HasThousandsSeparators(s) ==
    /\ Count(s, ",") >= 1
    /\ \A i \in 1..Len(s) : s[i] \in AsciiDigits \cup {","}
    /\ s[1] # "," /\ s[Len(s)] # ","
    /\ \A i \in 1..(Len(s) - 1) : ~(s[i] = "," /\ s[i + 1] = ",")

IsLoneDot(s) == s = <<".">>

HasMultipleDots(s) ==
    /\ Count(s, ".") >= 2
    /\ \A i \in 1..Len(s) : s[i] \in AsciiDigits \cup {"."}
    /\ \E i \in 1..Len(s) : s[i] \in AsciiDigits

FallsThrough(s) ==
    \/ IsNegativeNumber(s)
    \/ IsScientific(s)
    \/ HasThousandsSeparators(s)
    \/ IsLoneDot(s)
    \/ HasMultipleDots(s)

\* C3, as stated: a trimmed line that is a negative number, a number with
\* leading zeros, a number in scientific notation, a number with thousands
\* separators, a lone decimal point or digits with several dots is always a
\* string row holding the trimmed line.
C3_AllFallThrough ==
    pc = "extracted" =>
        LET ls == TrimmedLines(text_content)
        IN /\ Len(extracted_data) = Len(ls)
           /\ \A i \in 1..Len(ls) :
                  (FallsThrough(ls[i]) \/ HasLeadingZeros(ls[i])) =>
                      extracted_data[i] = [type |-> "string", value |-> ls[i]]

\* C3, amended: a trimmed line that is a negative number, a number in
\* scientific notation, a number with thousands separators, a lone decimal
\* point or digits with several dots is a string row holding the trimmed
\* line; a number with leading zeros is not: digits alone ("007") are an
\* integer row with their base-10 value (7), digits dot digits a float row.
C3_FallThroughButLeadingZeros ==
    pc = "extracted" =>
        LET ls == TrimmedLines(text_content)
        IN /\ Len(extracted_data) = Len(ls)
           /\ \A i \in 1..Len(ls) :
                  /\ FallsThrough(ls[i]) =>
                         extracted_data[i] = [type |-> "string", value |-> ls[i]]
                  /\ (HasLeadingZeros(ls[i]) /\ PlainInt(ls[i])) =>
                         extracted_data[i] =
                             [type |-> "integer", value |-> PositionalSum(ls[i], 1)]
                  /\ (HasLeadingZeros(ls[i]) /\ PlainFloat(ls[i])) =>
                         extracted_data[i].type = "float"

C3_Witness ==
    /\ pc = "extracted"
    /\ text_content = <<"0", "1", "\n", "-", "1">>
    /\ extracted_data = <<[type |-> "integer", value |-> 1],
                          [type |-> "string", value |-> <<"-", "1">>]>>

\* the number of newlines before position p
NewlinesBefore(text, p) == Cardinality({q \in 1..(p - 1) : text[q] = "\n"})

\* the k-th line of a text, read off the positions of its characters
LineAt(text, k) ==
    LET P == {p \in 1..Len(text) : text[p] # "\n" /\ NewlinesBefore(text, p) = k - 1}
        first == CHOOSE p \in P : \A q \in P : p <= q
    IN [j \in 1..Cardinality(P) |-> text[first + j - 1]]

IsBlank(line) == \A i \in 1..Len(line) : line[i] \in Whitespace

\* the numbers of the lines that are not blank, in increasing order
RECURSIVE NonBlankFrom(_, _)
NonBlankFrom(text, k) ==
    IF k > Count(text, "\n") + 1 THEN <<>>
    ELSE (IF IsBlank(LineAt(text, k)) THEN <<>> ELSE <<k>>)
             \o NonBlankFrom(text, k + 1)

\* C4: the output has exactly one row per line that is not blank, in the
\* order of the lines, and no row for an empty or all-whitespace line.
C4_OneRowPerNonBlankLine ==
    pc = "extracted" =>
        LET ks == NonBlankFrom(text_content, 1)
        IN /\ Len(extracted_data) = Len(ks)
           /\ \A j \in 1..Len(ks) :
                  extracted_data[j] = ClassifiedLine(Strip(LineAt(text_content, ks[j])))

\* the lines "e", "", "  ", "1" give two rows, for "e" then "1"
C4_Witness ==
    /\ pc = "extracted"
    /\ text_content = <<"e", "\n", "\n", " ", " ", "\n", "1">>
    /\ extracted_data = <<[type |-> "string", value |-> <<"e">>],
                          [type |-> "integer", value |-> 1]>>

-----------------------------------------------------------------------------
(* Properties of a run of main *)

Shown(label) == \E i \in 1..Len(shown) : shown[i] = label

Called(f) == \E i \in 1..Len(calls) : calls[i] = f

Reported(m) == \E i \in 1..Len(errors) : errors[i].msg = m

Pair(row) == [type |-> row.type, value |-> row.value]

\* how many rows of a frame hold the (type, value) pair of a row
Occurrences(frame, row) ==
    Cardinality({j \in 1..Len(frame) : Pair(frame[j]) = Pair(row)})

Rank(kind) == CHOOSE i \in 1..3 : Kinds[i] = kind

\* the rows of one kind, in the order the frame has them
\* (read off the positions, lowest first)
RECURSIVE GroupFrom(_, _, _)
GroupFrom(frame, kind, i) ==
    IF i > Len(frame) THEN <<>>
    ELSE (IF frame[i].type = kind THEN <<Pair(frame[i])>> ELSE <<>>)
             \o GroupFrom(frame, kind, i + 1)

\* C5: the merged view (the three per-kind views concatenated as integer,
\* float, string) has the same multiset of (type, value) rows as the whole
\* table: none lost, none doubled, each kind in its original relative
\* order, the kinds in the order integer, float, string.
C5_MergedIsPermutation ==
    (pc = "done" /\ Shown("Merged")) =>
        /\ Len(merged_df) = Len(df)
        /\ \A i \in 1..Len(df) :
               Occurrences(merged_df, df[i]) = Occurrences(df, df[i])
        /\ \A k \in 1..3 :
               GroupFrom(merged_df, Kinds[k], 1) = GroupFrom(df, Kinds[k], 1)
        /\ \A i, j \in 1..Len(merged_df) :
               i < j => Rank(merged_df[i].type) <= Rank(merged_df[j].type)

\* a string line before an integer line: the merged view holds the same two
\* rows in the other order
C5_Witness ==
    /\ pc = "done"
    /\ Shown("Merged")
    /\ Len(df) = 2
    /\ df[1].type = "string"
    /\ df[2].type = "integer"
    /\ merged_df = <<df[2], df[1]>>

Views == {"Extracted Data:", "All Data", "Integers", "Floats", "Strings",
          "Merged", "Raw Text"}

\* C6: once the fetch has timed out, failed on the network or met a
\* non-2xx status, the run has reported a fetch error and it never calls
\* extract_data or preprocess_data nor shows a table, a view or the raw text.
C6_NoDatasetAfterFetchError ==
    (requests > 0 /\ page = None) =>
        /\ Reported("Error fetching URL")
        /\ ~Called("extract_data")
        /\ ~Called("preprocess_data")
        /\ \A i \in 1..Len(shown) : shown[i] \notin Views
        /\ extracted_data = <<>> /\ df = <<>> /\ merged_df = <<>>
        /\ pc \in {"returned", "reported"}

C6_Witness ==
    /\ pc = "reported"
    /\ requests = 1
    /\ page = None
    /\ errors[1] = [msg |-> "Error fetching URL", detail |-> "Timeout"]
    /\ shown = <<"spinner">>

\* C7, as stated: every failing run shows exactly one error message.
C7_OneErrorPerFailure == pc = "reported" => Len(errors) = 1

\* C7, amended: every failing run shows one or two error messages: exactly
\* one when the URL is empty ("Please enter a URL.") or the fetched text is
\* empty ("Failed to scrape data from the webpage."), exactly two when
\* scrape_webpage caught an exception (its own message, then "Failed to
\* scrape data from the webpage.").
C7_OneOrTwoErrors ==
    pc = "reported" =>
        IF UrlMissing(url)
        THEN Len(errors) = 1 /\ errors[1].msg = "Please enter a URL."
        ELSE IF text_content = None
        THEN /\ Len(errors) = 2
             /\ errors[1].msg \in {"Error fetching URL", "An unexpected error occurred"}
             /\ errors[2].msg = "Failed to scrape data from the webpage."
        ELSE /\ Len(errors) = 1
             /\ errors[1].msg = "Failed to scrape data from the webpage."

C7_Witness ==
    /\ pc = "reported"
    /\ Len(errors) = 2
    /\ errors[1] = [msg |-> "Error fetching URL", detail |-> "HTTPError"]
    /\ errors[2].msg = "Failed to scrape data from the webpage."

\* C8: a press of the button with an empty URL is rejected with an error
\* message before any network call: scrape_webpage is not called and no
\* request is made in that run.
C8_EmptyUrlNeverFetched ==
    (url = "" /\ pc # "idle") =>
        /\ pc = "reported"
        /\ errors = <<[msg |-> "Please enter a URL.", detail |-> ""]>>
        /\ ~Called("scrape_webpage")
        /\ requests = 0
        /\ page = None

C8_Witness ==
    /\ url = ""
    /\ pc = "reported"
    /\ Reported("Please enter a URL.")
    /\ requests = 0

Edges ==
    {<<"idle", "fetching">>, <<"idle", "reported">>,
     <<"fetching", "parsing">>, <<"fetching", "returned">>,
     <<"parsing", "returned">>,
     <<"returned", "classifying">>, <<"returned", "reported">>,
     <<"classifying", "tabulating">>, <<"tabulating", "displaying">>,
     <<"displaying", "done">>,
     <<"done", "idle">>, <<"reported", "idle">>}

C10_Order ==
    /\ requests <= 1
    /\ pc \in {"parsing", "returned", "classifying", "tabulating", "displaying",
               "done"} => requests = 1
    /\ (pc = "reported" /\ ~UrlMissing(url)) => requests = 1
    /\ Called("extract_data") =>
           /\ page # None
           /\ Truthy(text_content)
           /\ SubSeq(calls, 1, 2) = <<"scrape_webpage", "extract_data">>
    /\ Called("preprocess_data") =>
           calls = <<"scrape_webpage", "extract_data", "preprocess_data">>
    /\ pc = "done" =>
           /\ calls = <<"scrape_webpage", "extract_data", "preprocess_data">>
           /\ errors = <<>>

\* C10: a run with a non-empty URL goes idle, fetching, then classifying,
\* tabulating, done or else reported: one request per run and no retry,
\* no classification before a successful fetch, no tabulation before
\* classification, and every run that starts to fetch ends done or reported.
C10_LinearRun ==
    /\ []C10_Order
    /\ [][pc' # pc => <<pc, pc'>> \in Edges]_vars
    /\ (pc = "fetching") ~> (pc \in {"done", "reported"})

C10_Witness ==
    /\ pc = "done"
    /\ requests = 1
    /\ calls = <<"scrape_webpage", "extract_data", "preprocess_data">>
    /\ Shown("Raw Text")

====
